---- MODULE Spec2Model ----
(***************************************************************************)
(* Model of VODArchiver: the poll loop (TwitchArchiver.run), the per       *)
(* channel state machine (Monitor.update), the capture record              *)
(* (CurrentStream), the capture-and-publish task (Monitor.start /          *)
(* Monitor.upload) and the token handling of the Twitch client.            *)
(***************************************************************************)
EXTENDS Integers, Sequences, FiniteSets, TLC

(***************************************************************************)
(* Bounds of the model.                                                    *)
(***************************************************************************)
\* number of poll cycles explored
MaxPolls == 3
\* number of capture tasks explored (launches over all channels)
MaxTasks == 2
\* resolution of the clock: ticks per second (int() in CurrentStream.update
\* truncates the sub-second part)
TicksPerSec == 2
\* ticks between import and the first cycle's dispatch
StartDelay == 1
\* seconds of the Twitch client's clock explored
MaxClock == 4
\* calls of the token endpoint explored
MaxRefreshes == 3
\* retries of one request explored
MaxTries == 1
\* lines the capture subprocess writes, over both of its streams
MaxLines == 3
\* lines a pipe holds before a write to it blocks
PipeCap == 1

(***************************************************************************)
(* Program constants.                                                      *)
(***************************************************************************)
\* app.py:246  refresh = 30
RefreshLive == 30
\* app.py:248  refresh = 2
RefreshIdle == 2
\* app.py:44   saving_at: datetime = datetime.utcnow(), evaluated once, when
\* the class body is executed at import: the clock value at process start
ImportTime == 0

\* monitored.json, read once in TwitchArchiver.__init__: the channel logins
monitored == <<"a", "b">>
Channels == {monitored[i] : i \in 1..Len(monitored)}

\* Optional[...] = None
None == [none |-> TRUE]

(***************************************************************************)
(* twitch.Stream values a poll can return.  The fields of a snapshot whose *)
(* type is not "live" are never read by Monitor.update, so one such value  *)
(* per channel is enough.                                                  *)
(***************************************************************************)
Snap(login, id, type, gid, gname, viewers) ==
    [id |-> id, type |-> type, title |-> "Test Stream", user_login |-> login,
     user_name |-> login, game_id |-> gid, game_name |-> gname,
     started_at |-> 0, viewer_count |-> viewers]

NotLive(login) == Snap(login, "41", "", "111", "Chess", 10)

Snapshots(login) ==
    { Snap(login, "41", "live", "111", "Chess", 10),
      Snap(login, "41", "live", "222", "Art", 11),
      Snap(login, "41", "live", "333", "Art", 11),
      Snap(login, "42", "live", "222", "Art", 10),
      Snap(login, "42", "live", "0", "", 10),
      NotLive(login) }

VARIABLES
    broadcaster,\* environment: the one channel that broadcasts during the run
    loop,       \* the process: "running" (run() is polling), "crashed" or
                \* "interrupted" (run() was left, ta.close() is being run),
                \* "died" or "exited" (the process has ended after that)
    now,        \* the clock (datetime.utcnow()), in ticks
    polls,      \* number of poll cycles dispatched so far
    refresh,    \* TwitchArchiver.run: the interval chosen by the last cycle
    status,     \* Monitor.status, per channel
    stream,     \* Monitor.stream, per channel (None or a CurrentStream)
    tasks,      \* the tasks made by asyncio.create_task(self.start()), in order
    files,      \* names of the files on disk
    lastResult, \* history: per channel, the snapshot of the last cycle or None
    seen,       \* history: per channel, the categories of the snapshots
                \* applied to the current CaptureRecord, in order
    token,      \* Twitch.__token
    clock,      \* the clock read by Token, in seconds
    rq,         \* per caller of Twitch._request: where it is suspended
    refreshes,  \* history: number of calls made to the token endpoint
    proc,       \* CurrentStream.save: the capture subprocess
    pipe,       \* the lines held by the pipe of each of its streams
    printer,    \* the printer coroutine of each stream
    savePc      \* where save() is

avars == <<broadcaster, loop, now, polls, refresh, status, stream, tasks, files, lastResult, seen>>
twvars == <<token, clock, rq, refreshes>>
svars == <<proc, pipe, printer, savePc>>
vars == <<avars, twvars, svars>>

(***************************************************************************)
(* class Status(Enum)                                                      *)
(***************************************************************************)
OFFLINE == "OFFLINE"
LIVE == "LIVE"
Status == {OFFLINE, LIVE}

(***************************************************************************)
(* class GameUpdate: one timeline entry.                                   *)
(***************************************************************************)
GameUpdate(game_name, timestamp) == [game_name |-> game_name, timestamp |-> timestamp]

\* timedelta(seconds = int((datetime.utcnow() - self.saving_at).total_seconds()))
\* in whole seconds: int() truncates the sub-second part
ElapsedInMinutes(nw, saving_at) == (nw - saving_at) \div (60 * TicksPerSec)
Elapsed(nw, saving_at) == (nw - saving_at) \div TicksPerSec

(***************************************************************************)
(* CurrentStream.new: the record of a session.  game_id = 0 is coerced to  *)
(* the string "0" by the str field; saving_at and timeline take the class  *)
(* defaults (the timeline default is copied per instance).                 *)
(***************************************************************************)
CurrentStreamNewKeepsGame(s) ==
    [id |-> s.id, type |-> s.type, title |-> s.title, user_login |-> s.user_login,
     user_name |-> s.user_name, game_id |-> s.game_id, game_name |-> s.game_name,
     started_at |-> s.started_at, viewer_count |-> s.viewer_count,
     saving_at |-> ImportTime, timeline |-> <<>>]

CurrentStreamNew(s) ==
    [id |-> s.id, type |-> s.type, title |-> s.title, user_login |-> s.user_login,
     user_name |-> s.user_name, game_id |-> "0", game_name |-> "",
     started_at |-> s.started_at, viewer_count |-> s.viewer_count,
     saving_at |-> ImportTime, timeline |-> <<>>]

(***************************************************************************)
(* CurrentStream.update(game_id, game_name, viewer_count), called at clock *)
(* value nw.                                                               *)
(***************************************************************************)
GameChangedAlways(self, game_id) == TRUE
GameChanged(self, game_id) == game_id # self.game_id

CurrentStreamUpdate(self, game_id, game_name, viewer_count, nw) ==
    LET s1 == IF GameChanged(self, game_id)
              THEN [self EXCEPT !.game_id = game_id,
                                !.game_name = game_name,
                                !.timeline = Append(@, GameUpdate(game_name,
                                                 Elapsed(nw, self.saving_at)))]
              ELSE self
    IN  IF viewer_count # s1.viewer_count
        THEN [s1 EXCEPT !.viewer_count = viewer_count]
        ELSE s1

\* CurrentStream.file
File(self) == self.user_login \o "_" \o self.id \o ".mp4"

(***************************************************************************)
(* The task made by asyncio.create_task(self.start()).  pc is the await    *)
(* the task is suspended at:                                               *)
(*   ready     scheduled, start() not yet entered                          *)
(*   saving    in self.stream.save()                                       *)
(*   u_login   upload: google.discover / channels.list                     *)
(*   u_insert  upload: videos.insert                                       *)
(*   u_update  upload: videos.update                                       *)
(*   u_remove  upload: aiofiles.os.remove                                  *)
(*   done      start() returned;  failed: start() ended with an exception  *)
(* file is the output file save() was started with, ufile the file name    *)
(* passed to videos.insert, dfile the file of the record the description   *)
(* was built from, rfile the one passed to remove.  launchId, uploads and   *)
(* failedAt are history: the stream id of the launch, how often upload()   *)
(* was entered and where it raised.  outcome is how save() ended, kept     *)
(* while the task waits at the first request of upload().                  *)
(***************************************************************************)
NewTask(c, s) ==
    [chan |-> c, pc |-> "ready", file |-> "", wrote |-> FALSE,
     ufile |-> "", dfile |-> "", rfile |-> "",
     launchId |-> s.id, outcome |-> "", uploads |-> 0, failedAt |-> ""]

(***************************************************************************)
(* Monitor.update(stream) for channel c at clock value nw, on the state    *)
(* st = [status, stream, tasks, seen].                                     *)
(***************************************************************************)
CurrentlyLive(s) == s # None /\ s.type = "live"

\* the category a snapshot reports
Category(s) == [game_id |-> s.game_id, game_name |-> s.game_name]

\* elif self.status == Status.LIVE and not currently_live: the record the
\* Monitor holds afterwards ("# self.stream = None" is commented out)
StreamAfterOfflineNone(self) == None
StreamAfterOffline(self) == self

MonitorUpdate(st, c, s, nw) ==
    IF st.status[c] = OFFLINE /\ CurrentlyLive(s)
    THEN [st EXCEPT !.status[c] = LIVE,
                    !.stream[c] = CurrentStreamUpdate(CurrentStreamNew(s),
                                      s.game_id, s.game_name, s.viewer_count, nw),
                    !.tasks = Append(@, NewTask(c, s)),
                    !.seen[c] = <<Category(s)>>]
    ELSE IF st.status[c] = LIVE /\ CurrentlyLive(s)
    THEN [st EXCEPT !.stream[c] = CurrentStreamUpdate(@,
                                      s.game_id, s.game_name, s.viewer_count, nw),
                    !.seen[c] = Append(@, Category(s))]
    ELSE IF st.status[c] = LIVE /\ ~CurrentlyLive(s)
    THEN [st EXCEPT !.status[c] = OFFLINE,
                    !.stream[c] = StreamAfterOffline(@)]
    ELSE st

(***************************************************************************)
(* TwitchArchiver.run, one cycle.                                          *)
(***************************************************************************)
\* get_streams: the list of Stream values of the response, one per channel
\* the API reports
StreamsOf(result) ==
    SelectSeq([i \in 1..Len(monitored) |-> result[monitored[i]]],
              LAMBDA s : s # None)

RefreshForFirst(streams) ==
    IF streams # <<>> /\ streams[1].type = "live"
    THEN RefreshLive
    ELSE RefreshIdle

\* if "live" in list(s.type for s in streams): refresh = 30  else: refresh = 2
RefreshFor(streams) ==
    IF \E i \in 1..Len(streams) : streams[i].type = "live"
    THEN RefreshLive
    ELSE RefreshIdle

\* list(filter(lambda x: x.user_login == mon.twitch, streams))
Matching(streams, c) == SelectSeq(streams, LAMBDA x : x.user_login = c)

\* for mon in self.monitored: if stream := ...: await mon.update(stream[0])
RECURSIVE Dispatch(_, _, _, _)
Dispatch(st, i, streams, nw) ==
    IF i > Len(monitored)
    THEN st
    ELSE LET m == Matching(streams, monitored[i])
         IN  Dispatch(IF m # <<>> THEN MonitorUpdate(st, monitored[i], m[1], nw)
                                  ELSE st,
                      i + 1, streams, nw)

\* What the API can answer: per configured channel a snapshot or nothing.
\* The channels other than the broadcaster are never reported live.
Results ==
    { r \in [Channels -> UNION {Snapshots(c) : c \in Channels} \cup {None}] :
        \A c \in Channels :
            IF c = broadcaster
            THEN r[c] \in Snapshots(c) \cup {None}
            ELSE r[c] \in {NotLive(c), None} }

\* the number of OFFLINE channels a result reports live
Launches(result) ==
    Cardinality({c \in Channels : status[c] = OFFLINE /\ CurrentlyLive(result[c])})

\* asyncio.create_task(self.start()) only schedules the task and update()
\* returns.  A scheduled task runs before the loop's sleep timer can expire:
\* the next cycle starts only when every task made by the last one has
\* entered start(), and it waits for nothing else of a task.
HoldsLoopUntilEnded(t) == t.pc \notin {"done", "failed"}
HoldsLoop(t) == t.pc = "ready"

Poll ==
    /\ loop = "running"
    /\ polls < MaxPolls
    /\ \A i \in 1..Len(tasks) : ~HoldsLoop(tasks[i])
    /\ \E result \in Results :
          /\ Launches(result) <= MaxTasks - Len(tasks)
          /\ LET streams == StreamsOf(result)
                 nw == now + refresh * TicksPerSec
                 st == Dispatch([status |-> status, stream |-> stream,
                                 tasks |-> tasks, seen |-> seen],
                                1, streams, nw)
             IN  /\ now' = nw
                 /\ refresh' = RefreshFor(streams)
                 /\ status' = st.status
                 /\ stream' = st.stream
                 /\ tasks' = st.tasks
                 /\ seen' = st.seen
                 /\ lastResult' = result
    /\ polls' = polls + 1
    /\ UNCHANGED <<broadcaster, loop, files>>
    /\ UNCHANGED <<twvars, svars>>

\* get_streams raises (the request was given up, the token endpoint's answer
\* was unusable, the answer did not parse): nothing in run() catches it, the
\* exception leaves run() and loop.run_until_complete(ta.run())
PollFails ==
    /\ loop = "running"
    /\ polls < MaxPolls
    /\ \A i \in 1..Len(tasks) : ~HoldsLoop(tasks[i])
    /\ loop' = "crashed"
    /\ UNCHANGED <<broadcaster, now, polls, refresh, status, stream, tasks, files, lastResult, seen>>
    /\ UNCHANGED <<twvars, svars>>

\* KeyboardInterrupt leaves loop.run_until_complete(ta.run()); except: pass
Interrupt ==
    /\ loop = "running"
    /\ loop' = "interrupted"
    /\ UNCHANGED <<broadcaster, now, polls, refresh, status, stream, tasks, files, lastResult, seen>>
    /\ UNCHANGED <<twvars, svars>>

\* finally: loop.run_until_complete(ta.close()) has returned and the module
\* ends: the process exits (after a crash, with the exception), whatever
\* tasks are still pending
Exit ==
    /\ loop \in {"crashed", "interrupted"}
    /\ loop' = IF loop = "crashed" THEN "died" ELSE "exited"
    /\ UNCHANGED <<broadcaster, now, polls, refresh, status, stream, tasks, files, lastResult, seen>>
    /\ UNCHANGED <<twvars, svars>>

\* the event loop runs tasks while run() or ta.close() is being run
Alive == loop \in {"running", "crashed", "interrupted"}

(***************************************************************************)
(* Monitor.start and Monitor.upload: the steps of task i.                  *)
(***************************************************************************)
Outcomes == {"returned", "exit_failure", "raised"}

\* Monitor.start: try: await self.stream.save() / except Exception / finally:
\* await self.upload().  Where the task goes when save() has ended.
AfterSaveNoFinally(outcome) == IF outcome = "raised" THEN "failed" ELSE "u_login"
AfterSave(outcome) == "u_login"

\* start() is entered: self.stream.save() is called on the record the Monitor
\* holds now, and save() builds its command line with --output self.file
TaskStart(i) ==
    /\ Alive
    /\ tasks[i].pc = "ready"
    /\ tasks' = [tasks EXCEPT ![i].pc = "saving",
                              ![i].file = File(stream[tasks[i].chan])]
    /\ UNCHANGED <<broadcaster, loop, now, polls, refresh, status, stream, files, lastResult, seen>>
    /\ UNCHANGED <<twvars, svars>>

\* the capture subprocess opens its output file
CaptureWrites(i) ==
    /\ Alive
    /\ tasks[i].pc = "saving"
    /\ ~tasks[i].wrote
    /\ tasks' = [tasks EXCEPT ![i].wrote = TRUE]
    /\ files' = files \cup {tasks[i].file}
    /\ UNCHANGED <<broadcaster, loop, now, polls, refresh, status, stream, lastResult, seen>>
    /\ UNCHANGED <<twvars, svars>>

\* save() ends: it returns (whatever the exit code) or raises
SaveEnds(i) ==
    /\ Alive
    /\ tasks[i].pc = "saving"
    /\ \E o \in Outcomes :
          tasks' = [tasks EXCEPT ![i].outcome = o,
                                 ![i].pc = AfterSave(o),
                                 ![i].uploads = IF AfterSave(o) = "u_login"
                                                THEN @ + 1 ELSE @]
    /\ UNCHANGED <<broadcaster, loop, now, polls, refresh, status, stream, files, lastResult, seen>>
    /\ UNCHANGED <<twvars, svars>>

\* start() is left: the task's locals are gone
Ended(t, pc, at) ==
    [t EXCEPT !.pc = pc, !.failedAt = at, !.outcome = "", !.file = "",
              !.wrote = FALSE, !.ufile = "", !.dfile = "", !.rfile = ""]

\* an awaited call of upload() raises: the exception leaves upload() and start()
UploadRaises(i) ==
    /\ Alive
    /\ tasks[i].pc \in {"u_login", "u_insert", "u_update", "u_remove"}
    /\ tasks' = [tasks EXCEPT ![i] = Ended(@, "failed", tasks[i].pc)]
    /\ UNCHANGED <<broadcaster, loop, now, polls, refresh, status, stream, files, lastResult, seen>>
    /\ UNCHANGED <<twvars, svars>>

\* google.discover and channels.list have answered; videos.insert is called
\* with upload_file = self.stream.file
UploadLogin(i) ==
    /\ Alive
    /\ tasks[i].pc = "u_login"
    /\ tasks' = [tasks EXCEPT ![i].pc = "u_insert",
                              ![i].outcome = "",
                              ![i].ufile = File(stream[tasks[i].chan])]
    /\ UNCHANGED <<broadcaster, loop, now, polls, refresh, status, stream, files, lastResult, seen>>
    /\ UNCHANGED <<twvars, svars>>

\* videos.insert has answered (it can only if the file was there to be read);
\* the description is built from self.stream.started_at, self.stream.title
\* and self.stream.timeline, and videos.update is called with it
UploadInsert(i) ==
    /\ Alive
    /\ tasks[i].pc = "u_insert"
    /\ tasks[i].ufile \in files
    /\ tasks' = [tasks EXCEPT ![i].pc = "u_update",
                              ![i].dfile = File(stream[tasks[i].chan])]
    /\ UNCHANGED <<broadcaster, loop, now, polls, refresh, status, stream, files, lastResult, seen>>
    /\ UNCHANGED <<twvars, svars>>

\* videos.update has answered; aiofiles.os.remove(self.stream.file) is called
UploadUpdate(i) ==
    /\ Alive
    /\ tasks[i].pc = "u_update"
    /\ tasks' = [tasks EXCEPT ![i].pc = "u_remove",
                              ![i].rfile = File(stream[tasks[i].chan])]
    /\ UNCHANGED <<broadcaster, loop, now, polls, refresh, status, stream, files, lastResult, seen>>
    /\ UNCHANGED <<twvars, svars>>

\* remove has returned: the file is gone (it raises when there is no such file)
UploadRemove(i) ==
    /\ Alive
    /\ tasks[i].pc = "u_remove"
    /\ tasks[i].rfile \in files
    /\ files' = files \ {tasks[i].rfile}
    /\ tasks' = [tasks EXCEPT ![i] = Ended(@, "done", "")]
    /\ UNCHANGED <<broadcaster, loop, now, polls, refresh, status, stream, lastResult, seen>>
    /\ UNCHANGED <<twvars, svars>>

(***************************************************************************)
(* twitch.py: class Token and Twitch._request / Twitch._get_token.         *)
(***************************************************************************)
\* a missing key: dict.get gives None
Null == "None"

\* JSON bodies the token endpoint can answer with: a grant, an error body
\* (neither key), a body without access_token, grants with expires_in 0 or
\* negative, and the empty object
Grant(access_token, has_expires_in, expires_in) ==
    [empty |-> FALSE, access_token |-> access_token,
     has_expires_in |-> has_expires_in, expires_in |-> expires_in]
EmptyBody == [empty |-> TRUE, access_token |-> Null,
              has_expires_in |-> FALSE, expires_in |-> 0]
Responses ==
    { Grant("tok", TRUE, 2), Grant(Null, FALSE, 0), Grant(Null, TRUE, 2),
      Grant("tok", TRUE, 0), Grant("tok", TRUE, -1), EmptyBody }

\* class attributes: token = None, expires_at = 0
TokenDefault == [token |-> Null, expires_at |-> 0]

\* Token.__init__(data) at clock value nw raises TypeError when data is not
\* empty and has no expires_in: timedelta(seconds = None)
TokenRaises(data) == ~data.empty /\ ~data.has_expires_in

TokenNew(data, nw) ==
    IF data.empty
    THEN TokenDefault
    ELSE [token |-> data.access_token, expires_at |-> nw + data.expires_in]

\* Token.expired
Expired(t, nw) == t.token = Null \/ t.expires_at < nw

Requesters == {1, 2}

\* kwargs["headers"]["Authorization"] = f"Bearer {self.__token.token}":
\* the caller goes on to super()._request with the header built from t.
\* bearer and stale are history: the token put in the header and whether its
\* expires_at was in the past then.
Attach(q, t, nw) ==
    [q EXCEPT !.pc = "sending", !.bearer = t.token,
              !.stale = t.expires_at < nw]

\* _request is entered: the token is checked; if it is expired _get_token is
\* awaited, else the header is attached and the request sent
ReqEnter(r) ==
    /\ rq[r].pc = "idle"
    /\ IF Expired(token, clock)
       THEN /\ refreshes < MaxRefreshes
            /\ rq' = [rq EXCEPT ![r].pc = "refreshing"]
            /\ refreshes' = refreshes + 1
       ELSE /\ rq' = [rq EXCEPT ![r] = Attach(@, token, clock)]
            /\ UNCHANGED refreshes
    /\ UNCHANGED <<token, clock>>
    /\ UNCHANGED <<avars, svars>>

\* _get_token: the token endpoint has answered; self.__token = Token(json),
\* then _request attaches self.__token.token without another check
TokenAnswers(r) ==
    /\ rq[r].pc = "refreshing"
    /\ \E data \in Responses :
          IF TokenRaises(data)
          THEN /\ rq' = [rq EXCEPT ![r].pc = "error", ![r].failed = "TypeError"]
               /\ UNCHANGED token
          ELSE /\ token' = TokenNew(data, clock)
               /\ rq' = [rq EXCEPT ![r] = Attach(@, TokenNew(data, clock), clock)]
    /\ UNCHANGED <<clock, refreshes>>
    /\ UNCHANGED <<avars, svars>>

\* super()._request has answered with success: _request returns
ReqAnswers(r) ==
    /\ rq[r].pc = "sending"
    /\ rq' = [rq EXCEPT ![r].pc = "done"]
    /\ UNCHANGED <<token, clock, refreshes>>
    /\ UNCHANGED <<avars, svars>>

\* What makes aiohttp raise a ClientError: the transport fails, or, for the
\* API request only (raise_for_status = True), the answer has a status >= 400.
\* The post to the token endpoint has no status check.
FailuresAt(pc) ==
    IF pc = "sending" THEN {"transport", "4xx", "5xx"} ELSE {"transport"}

\* an aiohttp.ClientError is raised: backoff.on_exception calls _request
\* again, whatever the error, until max_time is used up (MaxTries retries)
ReqFails(r) ==
    /\ rq[r].pc \in {"sending", "refreshing"}
    /\ \E k \in FailuresAt(rq[r].pc) :
          rq' = [rq EXCEPT ![r].pc = IF rq[r].tries < MaxTries THEN "idle" ELSE "error",
                           ![r].tries = IF rq[r].tries < MaxTries THEN @ + 1 ELSE @,
                           ![r].failed = k]
    /\ UNCHANGED <<token, clock, refreshes>>
    /\ UNCHANGED <<avars, svars>>

\* the caller makes its next request
ReqNew(r) ==
    /\ rq[r].pc = "done"
    /\ rq' = [rq EXCEPT ![r] = [pc |-> "idle", bearer |-> Null, stale |-> FALSE,
                                 tries |-> 0, failed |-> ""]]
    /\ UNCHANGED <<token, clock, refreshes>>
    /\ UNCHANGED <<avars, svars>>

\* time passes
Tick ==
    /\ clock < MaxClock
    /\ clock' = clock + 1
    /\ UNCHANGED <<token, rq, refreshes>>
    /\ UNCHANGED <<avars, svars>>

(***************************************************************************)
(* CurrentStream.save: the subprocess, its two pipes and the two printers. *)
(* savePc is the await save() is suspended at:                             *)
(*   draining  await asyncio.wait([printer(stdout), printer(stderr)])      *)
(*   waiting   await proc.wait()                                           *)
(*   returned  save() has returned                                         *)
(* printer[s] is "reading" (in async for line in stream), "eof" (the loop  *)
(* ended at end-of-file) or "raised" (the coroutine ended by an exception).*)
(* proc.next is the write the subprocess is in: <<stream, line>>, or <<>>. *)
(***************************************************************************)
Streams == {"stdout", "stderr"}

\* the lines the subprocess can write: text, or bytes that are not UTF-8
Lines == {"text", "undecodable"}

\* line.decode() returns (it raises UnicodeDecodeError otherwise)
Decodes(line) == line = "text"

\* the subprocess begins to write a line to one of its streams
ProcWants ==
    /\ proc.state = "running"
    /\ proc.next = <<>>
    /\ proc.written < MaxLines
    /\ \E s \in Streams, l \in Lines :
          proc' = [proc EXCEPT !.next = <<s, l>>, !.written = @ + 1]
    /\ UNCHANGED <<pipe, printer, savePc>>
    /\ UNCHANGED <<avars, twvars>>

\* the write goes through when the pipe has room; it blocks until then
ProcWrites ==
    /\ proc.state = "running"
    /\ proc.next # <<>>
    /\ Len(pipe[proc.next[1]]) < PipeCap
    /\ pipe' = [pipe EXCEPT ![proc.next[1]] = Append(@, proc.next[2])]
    /\ proc' = [proc EXCEPT !.next = <<>>]
    /\ UNCHANGED <<printer, savePc>>
    /\ UNCHANGED <<avars, twvars>>

\* the subprocess exits: the write ends of both pipes are closed
ProcExits ==
    /\ proc.state = "running"
    /\ proc.next = <<>>
    /\ proc' = [proc EXCEPT !.state = "exited"]
    /\ UNCHANGED <<pipe, printer, savePc>>
    /\ UNCHANGED <<avars, twvars>>

\* async for line in stream: log(f"[{self.user_name}] {line.decode().rstrip()}")
\* the printer of s takes a line; decode() returns or raises
PrinterReads(s) ==
    /\ printer[s] = "reading"
    /\ pipe[s] # <<>>
    /\ pipe' = [pipe EXCEPT ![s] = Tail(@)]
    /\ printer' = [printer EXCEPT ![s] = IF Decodes(Head(pipe[s]))
                                         THEN "reading"
                                         ELSE "raised"]
    /\ UNCHANGED <<proc, savePc>>
    /\ UNCHANGED <<avars, twvars>>

\* the printer of s finds the pipe empty and closed: async for ends
PrinterEof(s) ==
    /\ printer[s] = "reading"
    /\ pipe[s] = <<>>
    /\ proc.state = "exited"
    /\ printer' = [printer EXCEPT ![s] = "eof"]
    /\ UNCHANGED <<proc, pipe, savePc>>
    /\ UNCHANGED <<avars, twvars>>

\* asyncio.wait returns when both printers are done, however they ended (it
\* does not raise the exception of one); await proc.wait() follows
WaitReturns ==
    /\ savePc = "draining"
    /\ \A s \in Streams : printer[s] # "reading"
    /\ savePc' = "waiting"
    /\ UNCHANGED <<proc, pipe, printer>>
    /\ UNCHANGED <<avars, twvars>>

\* proc.wait() returns when the subprocess has exited: save() returns
ProcWaitReturns ==
    /\ savePc = "waiting"
    /\ proc.state = "exited"
    /\ savePc' = "returned"
    /\ UNCHANGED <<proc, pipe, printer>>
    /\ UNCHANGED <<avars, twvars>>

\* create_subprocess_shell has returned; asyncio.wait has made the printers
InitSave ==
    /\ proc = [state |-> "running", next |-> <<>>, written |-> 0]
    /\ pipe = [s \in Streams |-> <<>>]
    /\ printer = [s \in Streams |-> "reading"]
    /\ savePc = "draining"

InitA ==
    /\ broadcaster \in Channels
    /\ loop = "running"
    /\ now = ImportTime + StartDelay
    /\ polls = 0
    /\ refresh = 0
    /\ status = [c \in Channels |-> OFFLINE]
    /\ stream = [c \in Channels |-> None]
    /\ tasks = <<>>
    /\ files = {}
    /\ lastResult = [c \in Channels |-> None]
    /\ seen = [c \in Channels |-> <<>>]

\* Twitch.__token = Token(); no request made yet
InitTw ==
    /\ token = TokenDefault
    /\ clock = 1
    /\ rq = [r \in Requesters |->
                [pc |-> "idle", bearer |-> Null, stale |-> FALSE, tries |-> 0,
                 failed |-> ""]]
    /\ refreshes = 0

Init == InitA /\ InitTw /\ InitSave

Next ==
    \/ Poll
    \/ PollFails
    \/ Interrupt
    \/ Exit
    \/ \E i \in 1..Len(tasks) : TaskStart(i)
    \/ \E i \in 1..Len(tasks) : CaptureWrites(i)
    \/ \E i \in 1..Len(tasks) : SaveEnds(i)
    \/ \E i \in 1..Len(tasks) : UploadLogin(i)
    \/ \E i \in 1..Len(tasks) : UploadInsert(i)
    \/ \E i \in 1..Len(tasks) : UploadUpdate(i)
    \/ \E i \in 1..Len(tasks) : UploadRemove(i)
    \/ \E i \in 1..Len(tasks) : UploadRaises(i)

Spec == Init /\ [][Next]_vars

(***************************************************************************)
(* The Twitch client on its own, with two callers of _request.             *)
(***************************************************************************)
NextTw ==
    \/ \E r \in Requesters : ReqEnter(r)
    \/ \E r \in Requesters : TokenAnswers(r)
    \/ \E r \in Requesters : ReqAnswers(r)
    \/ \E r \in Requesters : ReqFails(r)
    \/ \E r \in Requesters : ReqNew(r)
    \/ Tick

SpecTw == Init /\ [][NextTw]_vars

(***************************************************************************)
(* One call of CurrentStream.save on its own.                              *)
(***************************************************************************)
NextSave ==
    \/ ProcWants
    \/ ProcWrites
    \/ ProcExits
    \/ \E s \in Streams : PrinterReads(s)
    \/ \E s \in Streams : PrinterEof(s)
    \/ WaitReturns
    \/ ProcWaitReturns

SpecSave == Init /\ [][NextSave]_vars

(***************************************************************************)
(* Properties.                                                             *)
(***************************************************************************)
Timeline(c) == IF stream[c] = None THEN <<>> ELSE stream[c].timeline
UploadPcs == {"u_login", "u_insert", "u_update", "u_remove"}

\* C1: after a cycle has been dispatched, a channel is LIVE if and only if
\* that cycle's result held a snapshot of type "live" for it; a LIVE channel
\* with no snapshot in the cycle is OFFLINE afterwards.
C1_StatusFollowsLastPoll ==
    polls > 0 =>
        \A c \in Channels : (status[c] = LIVE) <=> CurrentlyLive(lastResult[c])

\* C2: for every launched capture task upload() is entered exactly once,
\* however save() ended: not before save() has ended, once when it has, and
\* a task that has ended entered it once.
C2_UploadExactlyOnce ==
    \A i \in 1..Len(tasks) :
        /\ tasks[i].pc \in {"ready", "saving"} => tasks[i].uploads = 0
        /\ tasks[i].pc \in UploadPcs \cup {"done", "failed"} => tasks[i].uploads = 1

C2_Witness ==
    \E i \in 1..Len(tasks) :
        /\ tasks[i].pc = "u_login"
        /\ tasks[i].outcome = "raised"
        /\ tasks[i].uploads = 1

\* C3: no timeline holds two consecutive entries with the same category name.
C3_NoConsecutiveSameName ==
    \A c \in Channels :
        \A k \in 1..(Len(Timeline(c)) - 1) :
            Timeline(c)[k].game_name # Timeline(c)[k + 1].game_name

\* C4: the elapsed durations of a timeline are strictly increasing in the
\* order of the entries.
C4_ElapsedStrictlyIncreasing ==
    \A c \in Channels :
        \A k \in 1..(Len(Timeline(c)) - 1) :
            Timeline(c)[k].timestamp < Timeline(c)[k + 1].timestamp

C4_Witness ==
    \E c \in Channels :
        /\ Len(Timeline(c)) >= 3
        /\ Timeline(c)[2].timestamp = Timeline(c)[1].timestamp + 30

\* The state at the end of the Monitor.update call that took channel c from
\* OFFLINE to LIVE: the task it made has not run yet.
JustLaunched(i) == tasks[i].pc = "ready"

\* what C5 says of that state, but for the timeline
C5_Launch(i) ==
    LET c == tasks[i].chan
        s == lastResult[c]
    IN  /\ CurrentlyLive(s)
        /\ status[c] = LIVE
        /\ stream[c] # None
        /\ stream[c].id = s.id
        /\ stream[c].title = s.title
        /\ stream[c].user_login = c
        /\ stream[c].started_at = s.started_at
        /\ stream[c].viewer_count = s.viewer_count
        /\ Cardinality({j \in 1..Len(tasks) :
                            tasks[j].chan = c /\ tasks[j].pc = "ready"}) = 1
        /\ File(stream[c]) = c \o "_" \o s.id \o ".mp4"

\* the output file of a capture is <login>_<id>.mp4 of the launching snapshot
C5_OutputFile ==
    \A i \in 1..Len(tasks) :
        tasks[i].pc = "saving" =>
            tasks[i].file = tasks[i].chan \o "_" \o tasks[i].launchId \o ".mp4"

\* C5 as claimed: when an OFFLINE channel receives a live snapshot, at the end
\* of that update the status is LIVE, the new record is built from the
\* snapshot and has an empty timeline, and exactly one capture task has been
\* launched, with output file <login>_<id>.mp4.
C5_EmptyTimelineAtLaunch ==
    /\ \A i \in 1..Len(tasks) :
          JustLaunched(i) =>
              C5_Launch(i) /\ stream[tasks[i].chan].timeline = <<>>
    /\ C5_OutputFile

\* C5 amended: as C5, but the timeline holds one entry, the snapshot's category
\* with the elapsed time of the update, unless the category id is "0".
C5_FirstEntryAtLaunch ==
    /\ \A i \in 1..Len(tasks) :
          JustLaunched(i) =>
              /\ C5_Launch(i)
              /\ LET s == lastResult[tasks[i].chan]
                     tl == stream[tasks[i].chan].timeline
                 IN  IF s.game_id = "0"
                     THEN tl = <<>>
                     ELSE /\ Len(tl) = 1
                          /\ tl[1].game_name = s.game_name
                          /\ tl[1].timestamp = (now - ImportTime) \div TicksPerSec
    /\ C5_OutputFile

C5_Witness ==
    \E i \in 1..Len(tasks), j \in 1..Len(tasks) :
        /\ JustLaunched(i)
        /\ Len(stream[tasks[i].chan].timeline) = 1
        /\ tasks[j].pc = "saving"
        /\ tasks[j].file = "a_41.mp4"

\* the names of the categories in sq that differ in id from their predecessor,
\* prev being the id before the first
RECURSIVE NamesOfChanges(_, _)
NamesOfChanges(sq, prev) ==
    IF sq = <<>>
    THEN <<>>
    ELSE (IF sq[1].game_id # prev THEN <<sq[1].game_name>> ELSE <<>>)
         \o NamesOfChanges(Tail(sq), sq[1].game_id)

TimelineNames(c) == [k \in 1..Len(Timeline(c)) |-> Timeline(c)[k].game_name]

\* C6 as claimed: the timeline of a session holds one entry per category
\* change a poll observed during the session, none for the category the
\* session started in and none for a poll with an unchanged category id:
\* 111, then 222, then 222 gives the one entry for 222.
C6_OneEntryPerChange ==
    \A c \in Channels :
        seen[c] # <<>> =>
            TimelineNames(c) = NamesOfChanges(Tail(seen[c]), seen[c][1].game_id)

\* C6 amended: the timeline holds one entry for the category the session
\* started in (unless its id is "0") and one per later poll whose category id
\* differs from the one before, none for an unchanged id: 111, then 222, then
\* 222 gives the two entries for 111 and 222.
C6_EntryPerChangeAndStart ==
    \A c \in Channels :
        /\ TimelineNames(c) = NamesOfChanges(seen[c], "0")
        /\ (Len(seen[c]) = 3 /\ seen[c][1].game_id = "111"
             /\ seen[c][2].game_id = "222" /\ seen[c][3].game_id = "222")
           => TimelineNames(c) = <<"Chess", "Art">>

C6_Witness ==
    \E c \in Channels :
        /\ Len(seen[c]) = 3
        /\ seen[c][1].game_id = "111"
        /\ seen[c][2].game_id = "222"
        /\ seen[c][3].game_id = "222"
        /\ Len(Timeline(c)) = 2

\* C7: every request sent by _request carries a token that is present and
\* whose expires_at is not in the past when it is attached.
C7_BearerValid ==
    \A r \in Requesters :
        rq[r].pc = "sending" => rq[r].bearer # Null /\ ~rq[r].stale

\* C8: no two calls of the token endpoint are in flight at the same time.
C8_OneRefreshInFlight ==
    Cardinality({r \in Requesters : rq[r].pc = "refreshing"}) <= 1

\* C9: a file leaves the disk only by the remove of a hand-off whose publish
\* steps have all succeeded, and when a publish step of a hand-off fails
\* after the file was uploaded, the file it handles is still on disk when the
\* hand-off ends.
C9_FileKeptUnlessPublished ==
    [][/\ files' # files =>
             \/ files \subseteq files'
             \/ \E i \in 1..Len(tasks) :
                    /\ tasks[i].pc = "u_remove"
                    /\ tasks'[i].pc = "done"
                    /\ files' = files \ {tasks[i].rfile}
       /\ \A i \in 1..Len(tasks) :
             (tasks[i].pc = "u_update" /\ tasks'[i].pc = "failed")
                 => tasks[i].ufile \in files']_vars

\* C10: the interval chosen by a cycle is 30 when the cycle's result holds a
\* live snapshot for at least one configured channel, else 2.
C10_IntervalLongIffSomeLive ==
    polls > 0 =>
        refresh = IF \E c \in Channels : CurrentlyLive(lastResult[c])
                  THEN 30
                  ELSE 2

C10_Witness ==
    \E c \in Channels, d \in Channels :
        /\ polls > 0
        /\ CurrentlyLive(lastResult[c])
        /\ status[d] = OFFLINE
        /\ lastResult[d] # None
        /\ refresh = 30

\* C11: a poll cycle whose snapshot query fails does not end the poll loop:
\* run() is never left because of a failing cycle, the loop goes on to a next
\* cycle.
C11_FailedCycleKeepsLoop == loop \notin {"crashed", "died"}

\* C12: when the process has ended after an interrupt, every capture task
\* that had entered start() has run to its end and has entered its hand-off
\* once; no task is left behind in its capture or in its hand-off.
C12_CapturesFinishAfterInterrupt ==
    loop = "exited" =>
        \A i \in 1..Len(tasks) :
            tasks[i].pc # "ready" =>
                tasks[i].pc \in {"done", "failed"} /\ tasks[i].uploads = 1

\* the tasks that are capturing or publishing
InFlight(c) ==
    {i \in 1..Len(tasks) : tasks[i].chan = c /\ tasks[i].pc \in {"saving"} \cup UploadPcs}

\* C13: the poll loop never waits for a capture or its hand-off: while run()
\* is polling and no task is still waiting to enter start(), a next cycle can
\* run, whatever captures and hand-offs are under way (up to the number of
\* cycles explored).
C13_LoopNeverWaits ==
    (/\ loop = "running"
     /\ polls < MaxPolls
     /\ \A i \in 1..Len(tasks) : tasks[i].pc # "ready")
        => ENABLED Poll

\* a cycle has dispatched a second snapshot to a channel whose capture task
\* was, and still is, capturing
C13_Witness ==
    \E c \in Channels :
        /\ polls >= 2
        /\ Len(seen[c]) >= 2
        /\ \E i \in InFlight(c) : tasks[i].pc = "saving"
        /\ \A i \in 1..Len(tasks) : tasks[i].pc \notin {"done", "failed"}

\* C14: a step that takes a channel from LIVE to OFFLINE leaves the channel's
\* record, every task (so no hand-off is entered), the files and every
\* channel without a snapshot of its own as they were, and makes no task.
C14_OfflineChangesOnlyStatus ==
    [][\A c \in Channels :
          (status[c] = LIVE /\ status'[c] = OFFLINE) =>
              /\ stream'[c] = stream[c]
              /\ tasks' = tasks
              /\ files' = files
              /\ \A d \in Channels \ {c} :
                     lastResult'[d] = None =>
                         status'[d] = status[d] /\ stream'[d] = stream[d]]_vars

C14_Witness ==
    \E c \in Channels :
        /\ status[c] = OFFLINE
        /\ lastResult[c] = NotLive(c)
        /\ stream[c] # None
        /\ Len(Timeline(c)) >= 2
        /\ \E i \in InFlight(c) : tasks[i].pc = "saving" /\ tasks[i].wrote

\* C15: at most one capture-and-publish task is in flight per channel.
C15_OneTaskPerChannel ==
    \A c \in Channels :
        Cardinality({i \in 1..Len(tasks) :
                        tasks[i].chan = c /\ tasks[i].pc \notin {"done", "failed"}}) <= 1

\* C16: the record made by an OFFLINE->LIVE transition has the time of that
\* transition as its saving_at (to the whole second the timeline is kept in),
\* so the entries the transition appends have elapsed 0.
C16_ElapsedFromOwnSession ==
    [][\A c \in Channels :
          (status[c] = OFFLINE /\ status'[c] = LIVE) =>
              /\ Elapsed(now', stream'[c].saving_at) = 0
              /\ \A k \in 1..Len(stream'[c].timeline) :
                     stream'[c].timeline[k].timestamp = 0]_vars

\* C20: a hand-off acts on the record its own capture was started with: the
\* file given to videos.insert, the record the description is built from and
\* the file removed are those of the file the task's capture wrote.
C20_HandOffOwnRecord ==
    \A i \in 1..Len(tasks) :
        LET t == tasks[i]
        IN  /\ t.pc \in {"u_insert", "u_update", "u_remove"} => t.ufile = t.file
            /\ t.pc \in {"u_update", "u_remove"} => t.dfile = t.file
            /\ t.pc = "u_remove" => t.rfile = t.file

\* C17: Token.expired is true exactly when the token is absent or the clock
\* has reached expires_at; a token is reported expired at clock = expires_at.
C17_ExpiredFromExpiry ==
    Expired(token, clock) <=> (token.token = Null \/ clock >= token.expires_at)

\* C18: a request answered with a 4xx status is not made again, the call ends
\* with the error; a call is given up after a transport failure or a 5xx
\* answer only when its retries are used up.
C18_NoRetryOn4xx ==
    \A r \in Requesters :
        /\ rq[r].failed = "4xx" => rq[r].pc = "error"
        /\ (rq[r].failed \in {"transport", "5xx"} /\ rq[r].pc = "error")
               => rq[r].tries = MaxTries

\* C19: save() returns only after both streams are at end-of-file (every
\* line written was taken from its pipe) and the subprocess has exited, and
\* once the subprocess has exited save() is never stuck: until it has
\* returned, a step of it or of a printer can be taken.
C19_SaveReturnsAfterDrain ==
    /\ savePc = "returned" =>
           /\ proc.state = "exited"
           /\ \A s \in Streams : printer[s] # "reading" /\ pipe[s] = <<>>
    /\ (proc.state = "exited" /\ savePc # "returned") => ENABLED NextSave

====
